---------------------------- MODULE Spec2Model ----------------------------
(***************************************************************************)
(* Atlas dialogue engine: the decision layer of the Genkit flows.          *)
(*                                                                         *)
(*   intentAnalysisFlow / conversationFlow          (processTurn)          *)
(*   clarificationProcessingFlow /                                         *)
(*       requirementsGatheringFlow                  (processClarification- *)
(*                                                   Answer)               *)
(*   conversationStateFlow                                                 *)
(*   ambiguityDetectionFlow, calculatePriority,                            *)
(*       calculateOverallAmbiguityScore                                    *)
(*   contextExtractionFlow (the industry and event pattern lookup)         *)
(*                                                                         *)
(* Every model call (definePrompt(...)(...)) is an external capability:    *)
(* its output is a nondeterministic choice among the values its output     *)
(* schema accepts, or a failure (the awaited promise rejects).             *)
(*                                                                         *)
(* Numbers.  The code computes in IEEE doubles; the model computes the     *)
(* same expressions exactly:                                               *)
(*   - an ambiguity's confidence is kept in tenths    (9  stands for 0.9), *)
(*   - an understanding's confidence.overall in hundredths (82 for 0.82),  *)
(*   - a priority is kept as such (impact x urgency x confidence x 10 is   *)
(*     impact x urgency x tenths),                                         *)
(*   - the overall ambiguity score is the fraction num / (10 * den) with   *)
(*     num = sum of weight x tenths and den = 3 x count.                   *)
(***************************************************************************)
EXTENDS Integers, Sequences, FiniteSets, TLC

VARIABLES
    ctx,        \* the ConversationContext the caller holds (NoContext before turn 1)
    inCtx,      \* the context handed to the most recent flow call
    inArgs,     \* the other fields of the most recent call's input
    out,        \* the value returned by the most recent flow call
    calls,      \* server: the flow invocations, in flight or finished
    clock,      \* server: the reading Date.now() gives
    turn,       \* handler: one invocation of intentAnalysisFlow, step by step
    detected,   \* analyzer: the ambiguities emitted by ambiguityAnalysisPrompt
    analysis,   \* analyzer: the value returned by ambiguityDetectionFlow
    extraction  \* context extraction: what was detected and what was returned

vars == <<ctx, inCtx, inArgs, out, calls, clock, turn, detected, analysis, extraction>>

handlerVars == <<turn>>

\* the variables of the flows checked alone
analyzerVars == <<detected, analysis, extraction>>

serverVars == <<calls, clock>>

callerVars == <<ctx, inCtx, inArgs, out>>

----------------------------------------------------------------------------
(* Bounds of the model *)

MaxTurns == 3

MaxAmbiguities == 2

\* invocations the server receives in the concurrent specification
MaxCalls == 3

----------------------------------------------------------------------------
(* Values of the schemas *)

\* an optional value x? is <<>> (undefined) or <<x>>
None == <<>>

Some(x) == <<x>>

\* an absent optional string
NoValue == "undefined"

ConversationStates == {"discovery", "clarification", "confirmation", "specification"}

NextActions == {"wait_for_input"}

AmbiguityTypes == {"budget_interpretation", "quantity_scope"}

Impacts == {"high", "medium", "low"}

Urgencies == {"critical", "important", "helpful"}

\* z.number() with no min/max: values below 0 and above 1 are accepted (tenths)
AmbiguityConfidences == {-5, 0, 4, 9, 15}

\* z.number().min(0).max(1) (hundredths)
OverallConfidences == {60, 70, 80, 85}

\* one element of the ambiguities array of ambiguityAnalysisPrompt's output
DetectedAmbiguity ==
    [type : AmbiguityTypes, impact : Impacts,
     resolutionUrgency : Urgencies, confidence : AmbiguityConfidences]

SeqsUpTo(S, n) == UNION {[1..k -> S] : k \in 0..n}

----------------------------------------------------------------------------
(* Helper functions of the ambiguity detector *)

ImpactWeightTable(impact) ==
    CASE impact = "high" -> 3
      [] impact = "medium" -> 2
      [] impact = "low" -> 1

UrgencyWeightTable(urgency) ==
    CASE urgency = "critical" -> 3
      [] urgency = "important" -> 2
      [] urgency = "helpful" -> 1

\* (impactWeight * urgencyWeight * confidenceWeight) * 10, confidence in tenths
calculatePriority(ambiguity) ==
    (ImpactWeightTable(ambiguity.impact)
        * UrgencyWeightTable(ambiguity.resolutionUrgency))
        * ambiguity.confidence

RECURSIVE totalImpact(_)
\* ambiguities.reduce((sum, amb) => sum + weight * amb.confidence, 0)
totalImpact(ambiguities) ==
    IF ambiguities = <<>> THEN 0
    ELSE totalImpact(SubSeq(ambiguities, 1, Len(ambiguities) - 1))
         + ImpactWeightTable(ambiguities[Len(ambiguities)].impact)
           * ambiguities[Len(ambiguities)].confidence

\* the score is num / (10 * den)
calculateOverallAmbiguityScore(ambiguities) ==
    IF Len(ambiguities) = 0 THEN [num |-> 0, den |-> 1]
    ELSE [num |-> totalImpact(ambiguities), den |-> Len(ambiguities) * 3]

comparePriority_ascending(a, b) == a.priority - b.priority

\* the comparator handed to sort: (a, b) => b.priority - a.priority
comparePriority(a, b) == b.priority - a.priority

\* Array.prototype.sort is stable: an element goes before the first element
\* the comparator orders strictly after it, and after every other one.
InsertSorted(sorted, x) ==
    LET before == {k \in 1..Len(sorted) : comparePriority(sorted[k], x) > 0}
        pos == IF before = {} THEN Len(sorted) + 1
               ELSE CHOOSE k \in before : \A j \in before : k <= j
    IN  SubSeq(sorted, 1, pos - 1) \o <<x>> \o SubSeq(sorted, pos, Len(sorted))

RECURSIVE SortByPriority(_)
SortByPriority(entries) ==
    IF entries = <<>> THEN <<>>
    ELSE InsertSorted(SortByPriority(SubSeq(entries, 1, Len(entries) - 1)),
                      entries[Len(entries)])

\* the object built by .map(amb => ({ambiguityType, priority, reasoning}))
PriorityEntry(amb) ==
    [ambiguityType |-> amb.type,
     priority |-> calculatePriority(amb),
     reasoning |-> <<amb.impact, amb.confidence, amb.resolutionUrgency>>]

\* detectedAmbiguities drops resolutionUrgency
DetectedView(amb) ==
    [type |-> amb.type, confidence |-> amb.confidence, impact |-> amb.impact]

\* the value ambiguityDetectionFlow returns for the prompt output `ambiguities`
ambiguityDetectionFlow(ambiguities) ==
    [detectedAmbiguities |-> [i \in 1..Len(ambiguities) |-> DetectedView(ambiguities[i])],
     clarificationPriority |->
        SortByPriority([i \in 1..Len(ambiguities) |-> PriorityEntry(ambiguities[i])]),
     overallAmbiguityScore |-> calculateOverallAmbiguityScore(ambiguities)]

----------------------------------------------------------------------------
(* Outputs of the model calls of a turn *)

Amb(type, impact, urgency, confidence) ==
    [type |-> type, impact |-> impact,
     resolutionUrgency |-> urgency, confidence |-> confidence]

\* ambiguityAnalysisPrompt outputs drawn during a conversation turn
\* (scores 0, 0.1333, 0.3 and 0.5167)
TurnAmbiguityOutputs ==
    {<<>>,
     <<Amb("quantity_scope", "low", "helpful", 4)>>,
     <<Amb("budget_interpretation", "high", "important", 3)>>,
     <<Amb("quantity_scope", "low", "helpful", 4),
       Amb("budget_interpretation", "high", "critical", 9)>>}

\* outputs of the model that the prompt's output schema does not accept:
\* an impact or a resolutionUrgency outside the enums
NonConformingAmbiguityOutputs ==
    {<<Amb("budget_interpretation", "severe", "critical", 9)>>,
     <<Amb("quantity_scope", "low", "helpful", 4),
       Amb("budget_interpretation", "high", "soon", 9)>>}

\* what the model may answer to ambiguityAnalysisPrompt
AmbiguityPromptOutputs == TurnAmbiguityOutputs \cup NonConformingAmbiguityOutputs

\* output: { format: 'json', schema: z.object({ ambiguities: z.array(...) }) }:
\* the prompt call resolves only with an output of that schema
conformsToOutputSchema(raw) ==
    \A i \in 1..Len(raw) :
        /\ raw[i].type \in AmbiguityTypes
        /\ raw[i].impact \in Impacts
        /\ raw[i].resolutionUrgency \in Urgencies

\* the ambiguities array of a ProductDiscoverySchema value
UnderstandingAmbiguityLists ==
    {<<>>,
     <<[type |-> "budget_interpretation"], [type |-> "quantity_scope"]>>}

\* ProductDiscoverySchema values, reduced to the fields the flows read
UnderstandingOutputs ==
    {[ambiguities |-> a, confidence |-> [overall |-> c]] :
        a \in UnderstandingAmbiguityLists, c \in OverallConfidences}

Question(q, priority, reasoning) ==
    [question |-> q, priority |-> priority, reasoning |-> reasoning]

\* smartClarificationPrompt outputs: any array of ClarificationQuestionSchema
QuestionOutputs ==
    {<<>>,
     <<Question("q_budget", "high", "why"), Question("q_quantity", "low", "why"),
       Question("q_recipient", "low", ""), Question("q_timeline", "medium", "why")>>}

QuestionsAsked == {"q_budget", "q_quantity"}

\* maxQuestions: 3, the budget intentAnalysisFlow gives clarificationGenerationFlow
MaxQuestions == 3

ClarificationAnswers == {"a_per_item"}

\* Date.now() readings
ClockReadings == {1000, 1001}

----------------------------------------------------------------------------
(* intentAnalysisFlow and conversationFlow (processTurn) *)

needsClarification_strict(score, understanding) ==
    score.num >= 3 * score.den \/ understanding.confidence.overall <= 70

needsClarification_both(score, understanding) ==
    score.num > 3 * score.den /\ understanding.confidence.overall < 70

\* ambiguityAnalysis.overallAmbiguityScore > 0.3 ||
\*     enhancedUnderstanding.confidence.overall < 0.7
needsClarification(score, understanding) ==
    score.num > 3 * score.den \/ understanding.confidence.overall < 70

turnNumberOf_reset(conversationContext) == 1

\* (conversationContext?.turnNumber || 0) + 1
turnNumberOf(conversationContext) ==
    (IF conversationContext = None \/ conversationContext[1].turnNumber = 0
     THEN 0 ELSE conversationContext[1].turnNumber) + 1

callsClarificationGeneration_always(needs) == TRUE

conversationStateOf_clarifying(flag) == "clarification"

\* needsClarification ? 'clarification' : 'confirmation', and the same
\* expression over needsMoreClarification in clarificationProcessingFlow
conversationStateOf(flag) == IF flag THEN "clarification" ELSE "confirmation"

\* if (needsClarification) { clarificationQuestions = await
\*     clarificationGenerationFlow(...) }
callsClarificationGeneration(needs) == needs

previousContextOf_kept(conversationContext) ==
    IF conversationContext = None THEN None
    ELSE conversationContext[1].previousContext

\* previousContext: conversationContext?.currentUnderstanding
previousContextOf(conversationContext) ==
    IF conversationContext = None THEN None
    ELSE Some(conversationContext[1].currentUnderstanding)

\* the value intentAnalysisFlow returns when every awaited call resolves:
\* raw is ambiguityAnalysisPrompt's output, enhanced is
\* enhancedUnderstandingPrompt's, questions is smartClarificationPrompt's,
\* now is the reading of Date.now()
intentAnalysisFlow(conversationContext, raw, enhanced, questions, now) ==
    LET ambiguityAnalysis == ambiguityDetectionFlow(raw)
        needs == needsClarification(ambiguityAnalysis.overallAmbiguityScore, enhanced)
    IN  [understanding |-> enhanced,
         ambiguityAnalysis |-> ambiguityAnalysis,
         needsClarification |-> needs,
         clarificationQuestions |->
            IF callsClarificationGeneration(needs) THEN questions ELSE <<>>,
         \* the argument `ambiguities` of clarificationGenerationFlow
         questionsAbout |->
            IF callsClarificationGeneration(needs)
            THEN Some(ambiguityAnalysis.detectedAmbiguities) ELSE None,
         updatedContext |->
            [conversationId |->
                IF conversationContext = None THEN <<"conv", now>>
                ELSE conversationContext[1].conversationId,
             turnNumber |-> turnNumberOf(conversationContext),
             previousContext |-> previousContextOf(conversationContext),
             currentUnderstanding |-> enhanced,
             clarificationHistory |->
                IF conversationContext = None THEN <<>>
                ELSE conversationContext[1].clarificationHistory,
             userPreferences |->
                IF conversationContext = None THEN "{}"
                ELSE conversationContext[1].userPreferences,
             conversationState |-> conversationStateOf(needs)]]

\* the value conversationFlow returns for analysisResult
conversationFlow(analysisResult) ==
    [flow |-> "conversationFlow",
     failed |-> FALSE,
     understanding |-> analysisResult.understanding,
     ambiguityAnalysis |-> analysisResult.ambiguityAnalysis,
     needsClarification |-> analysisResult.needsClarification,
     clarificationQuestions |-> analysisResult.clarificationQuestions,
     questionsAbout |-> analysisResult.questionsAbout,
     conversationContext |-> analysisResult.updatedContext,
     confidence |->
        [overall |-> analysisResult.understanding.confidence.overall,
         readyToRecommend |->
            analysisResult.understanding.confidence.overall > 80
            /\ Len(analysisResult.understanding.ambiguities) = 0]]

\* the calls each handler awaits, in order (clarificationGenerationFlow only
\* if (needsClarification))
ConversationFlowAwaits ==
    {"intentAnalysisPrompt", "contextExtractionFlow", "ambiguityDetectionFlow",
     "enhancedUnderstandingPrompt", "businessIntelligenceFlow",
     "clarificationGenerationFlow", "responsePrompt"}

RequirementsGatheringFlowAwaits == {"clarificationIntegrationPrompt", "responsePrompt"}

ConversationStateFlowAwaits == {"stateAnalysisPrompt"}

\* why an awaited call rejects: the service failed, timed out or was
\* cancelled (the handlers do not tell these apart), or its output does not
\* conform to the prompt's output schema
CallFailed == "call_failed"

SchemaValidation == "schema_validation"

\* a flow whose awaited call rejects returns nothing: no handler has a
\* try / catch or a loop around an await, so the call was made once and its
\* error is the flow's error
Rejected(flow, awaited, error) ==
    [flow |-> flow, failed |-> TRUE, awaited |-> awaited, error |-> error,
     attempts |-> 1]

conversationContextAfter_counted(conversationContext) ==
    IF conversationContext = None THEN None
    ELSE Some([conversationContext[1] EXCEPT !.turnNumber = @ + 1])

conversationContextAfter_relabelled(conversationContext) ==
    IF conversationContext = None THEN None
    ELSE Some([conversationContext[1] EXCEPT !.conversationState = "discovery"])

\* the argument object once the handler has run: every handler only reads
\* conversationContext and builds a new object ({...conversationContext, ...},
\* [...conversationContext.clarificationHistory, ...])
conversationContextAfter(conversationContext) == conversationContext

----------------------------------------------------------------------------
(* clarificationProcessingFlow and requirementsGatheringFlow
   (processClarificationAnswer) *)

\* updatedUnderstanding.ambiguities.length > 0 ||
\*     updatedUnderstanding.confidence.overall < 0.8
needsMoreClarification(updatedUnderstanding) ==
    Len(updatedUnderstanding.ambiguities) > 0
    \/ updatedUnderstanding.confidence.overall < 80

clarificationHistoryOf_newestFirst(conversationContext, questionAsked, clarificationAnswer) ==
    <<[question |-> questionAsked,
       answer |-> clarificationAnswer,
       resolvedAmbiguity |-> NoValue]>>
        \o conversationContext.clarificationHistory

clarificationHistoryOf_resolved(conversationContext, questionAsked, clarificationAnswer) ==
    Append(conversationContext.clarificationHistory,
           [question |-> questionAsked,
            answer |-> clarificationAnswer,
            resolvedAmbiguity |->
                IF Len(conversationContext.currentUnderstanding.ambiguities) > 0
                THEN conversationContext.currentUnderstanding.ambiguities[1].type
                ELSE NoValue])

\* [...conversationContext.clarificationHistory,
\*  { question: questionAsked, answer: clarificationAnswer,
\*    resolvedAmbiguity: undefined }]
clarificationHistoryOf(conversationContext, questionAsked, clarificationAnswer) ==
    Append(conversationContext.clarificationHistory,
           [question |-> questionAsked,
            answer |-> clarificationAnswer,
            resolvedAmbiguity |-> NoValue])

\* the value clarificationProcessingFlow returns when the integration call
\* resolves with `updated`
clarificationProcessingFlow(clarificationAnswer, questionAsked, conversationContext, updated) ==
    LET needsMore == needsMoreClarification(updated)
    IN  [updatedUnderstanding |-> updated,
         needsMoreClarification |-> needsMore,
         nextQuestions |-> <<>>,
         updatedContext |->
            [conversationContext EXCEPT
                !.turnNumber = conversationContext.turnNumber + 1,
                !.previousContext = previousContextOf(Some(conversationContext)),
                !.currentUnderstanding = updated,
                !.clarificationHistory =
                    clarificationHistoryOf(conversationContext, questionAsked,
                                           clarificationAnswer),
                !.conversationState = conversationStateOf(needsMore)]]

readyForRecommendations_noThreshold(clarificationResult) ==
    ~clarificationResult.needsMoreClarification

\* !clarificationResult.needsMoreClarification &&
\*     clarificationResult.updatedUnderstanding.confidence.overall > 0.8
readyForRecommendations(clarificationResult) ==
    ~clarificationResult.needsMoreClarification
    /\ clarificationResult.updatedUnderstanding.confidence.overall > 80

\* the value requirementsGatheringFlow returns for clarificationResult
requirementsGatheringFlow(clarificationResult) ==
    [flow |-> "requirementsGatheringFlow",
     failed |-> FALSE,
     updatedUnderstanding |-> clarificationResult.updatedUnderstanding,
     needsMoreClarification |-> clarificationResult.needsMoreClarification,
     nextQuestions |-> clarificationResult.nextQuestions,
     conversationContext |-> clarificationResult.updatedContext,
     readyForRecommendations |-> readyForRecommendations(clarificationResult)]

----------------------------------------------------------------------------
(* conversationStateFlow *)

\* the input `action` is only forwarded to the analysis prompt
FlowActions == {"continue"}

ProgressScores == {5}

Interventions == {NoValue, "offer to connect to a human"}

\* conversationStateAnalysis outputs, reduced to the fields the flow reads
StateAnalysisOutputs ==
    [nextState : ConversationStates,
     nextAction : NextActions,
     score : ProgressScores,
     stuckIndicator : BOOLEAN,
     recommendedIntervention : Interventions]

conversationStateFlow_restarting(action, conversationContext, analysisOutput) ==
    [flow |-> "conversationStateFlow",
     failed |-> FALSE,
     updatedContext |->
        [conversationContext EXCEPT
            !.conversationState = analysisOutput.nextState,
            !.turnNumber = conversationContext.turnNumber + 1,
            !.clarificationHistory = <<>>],
     nextAction |-> analysisOutput.nextAction,
     conversationHealth |->
        [progressScore |-> analysisOutput.score,
         stuckIndicator |-> analysisOutput.stuckIndicator,
         recommendedIntervention |-> analysisOutput.recommendedIntervention]]

\* the value conversationStateFlow returns when the analysis call resolves
\* with `analysisOutput`
conversationStateFlow(action, conversationContext, analysisOutput) ==
    [flow |-> "conversationStateFlow",
     failed |-> FALSE,
     updatedContext |->
        [conversationContext EXCEPT
            !.conversationState = analysisOutput.nextState,
            !.turnNumber = conversationContext.turnNumber + 1],
     nextAction |-> analysisOutput.nextAction,
     conversationHealth |->
        [progressScore |-> analysisOutput.score,
         stuckIndicator |-> analysisOutput.stuckIndicator,
         recommendedIntervention |-> analysisOutput.recommendedIntervention]]

----------------------------------------------------------------------------
(* The conversation: the caller hands each call the context the previous
   call returned *)

NoCall == [flow |-> "none", failed |-> FALSE]

Calls == 1..MaxCalls

FirstReading == CHOOSE t \in ClockReadings : \A u \in ClockReadings : t <= u

\* an invocation the server has not received yet
Idle ==
    [status |-> "idle", flow |-> "none", input |-> None,
     inFlightAtArrival |-> {}, expectedTurn |-> 0, result |-> None]

\* intentAnalysisFlow's handler invoked, before its first statement
NewTurn ==
    [status |-> "running", pc |-> 1, waiting |-> None,
     pending |-> {}, completed |-> {},
     raw |-> None, enhanced |-> None, questions |-> <<>>,
     needs |-> None, updatedContext |-> None]

\* contextExtractionFlow not called
NoExtraction == [industry |-> "unknown", event |-> "unknown", result |-> None]

\* the input of a flow that takes no questionAsked / clarificationAnswer
NoAnswer == [questionAsked |-> NoValue, clarificationAnswer |-> NoValue]

Init ==
    /\ ctx = None
    /\ inCtx = None
    /\ inArgs = NoAnswer
    /\ out = NoCall
    /\ calls = [c \in Calls |-> Idle]
    /\ clock = FirstReading
    /\ turn = NewTurn
    /\ detected = <<>>
    /\ analysis = None
    /\ extraction = NoExtraction

TurnsLeft == IF ctx = None THEN TRUE ELSE ctx[1].turnNumber < MaxTurns

\* processTurn: conversationFlow({message, conversationContext}) resolves
ConversationFlow ==
    /\ TurnsLeft
    /\ \E raw \in {r \in AmbiguityPromptOutputs : conformsToOutputSchema(r)},
          enhanced \in UnderstandingOutputs :
          \* smartClarificationPrompt is called only if (needsClarification),
          \* Date.now() is read only if there is no conversationId
          \E questions \in
                IF callsClarificationGeneration(
                        needsClarification(calculateOverallAmbiguityScore(raw),
                                           enhanced))
                THEN QuestionOutputs ELSE {<<>>},
             now \in IF ctx = None THEN ClockReadings ELSE {NoValue} :
             out' = conversationFlow(
                        intentAnalysisFlow(ctx, raw, enhanced, questions, now))
    /\ ctx' = Some(out'.conversationContext)
    /\ inCtx' = conversationContextAfter(ctx)
    /\ inArgs' = NoAnswer
    /\ UNCHANGED <<analyzerVars, serverVars, handlerVars>>

\* processTurn: one of the awaited calls rejects; nothing is returned
ConversationFlowRejects ==
    /\ TurnsLeft
    /\ \E awaited \in ConversationFlowAwaits :
          out' = Rejected("conversationFlow", awaited, CallFailed)
    /\ inArgs' = NoAnswer
    /\ inCtx' = conversationContextAfter(ctx)
    /\ UNCHANGED <<ctx, analyzerVars, serverVars, handlerVars>>

\* processTurn: the model's answer to ambiguityAnalysisPrompt is not of the
\* output schema; the prompt call rejects and with it ambiguityDetectionFlow,
\* intentAnalysisFlow and conversationFlow, before any priority is computed
ConversationFlowRejectsOutput ==
    /\ TurnsLeft
    /\ \E raw \in AmbiguityPromptOutputs :
          /\ ~conformsToOutputSchema(raw)
          /\ out' = Rejected("conversationFlow", "ambiguityDetectionFlow",
                             SchemaValidation)
    /\ inArgs' = NoAnswer
    /\ inCtx' = conversationContextAfter(ctx)
    /\ UNCHANGED <<ctx, analyzerVars, serverVars, handlerVars>>

\* processClarificationAnswer: requirementsGatheringFlow resolves
RequirementsGatheringFlow ==
    /\ ctx # None
    /\ TurnsLeft
    /\ \E answer \in ClarificationAnswers, question \in QuestionsAsked,
          updated \in UnderstandingOutputs :
          /\ out' = requirementsGatheringFlow(
                    clarificationProcessingFlow(answer, question, ctx[1], updated))
          /\ inArgs' = [questionAsked |-> question, clarificationAnswer |-> answer]
    /\ ctx' = Some(out'.conversationContext)
    /\ inCtx' = conversationContextAfter(ctx)
    /\ UNCHANGED <<analyzerVars, serverVars, handlerVars>>

RequirementsGatheringFlowRejects ==
    /\ ctx # None
    /\ TurnsLeft
    /\ \E awaited \in RequirementsGatheringFlowAwaits :
          out' = Rejected("requirementsGatheringFlow", awaited, CallFailed)
    /\ \E answer \in ClarificationAnswers, question \in QuestionsAsked :
          inArgs' = [questionAsked |-> question, clarificationAnswer |-> answer]
    /\ inCtx' = conversationContextAfter(ctx)
    /\ UNCHANGED <<ctx, analyzerVars, serverVars, handlerVars>>

ConversationStateFlow ==
    /\ ctx # None
    /\ TurnsLeft
    /\ \E action \in FlowActions, analysisOutput \in StateAnalysisOutputs :
          out' = conversationStateFlow(action, ctx[1], analysisOutput)
    /\ ctx' = Some(out'.updatedContext)
    /\ inCtx' = conversationContextAfter(ctx)
    /\ inArgs' = NoAnswer
    /\ UNCHANGED <<analyzerVars, serverVars, handlerVars>>

ConversationStateFlowRejects ==
    /\ ctx # None
    /\ TurnsLeft
    /\ \E awaited \in ConversationStateFlowAwaits :
          out' = Rejected("conversationStateFlow", awaited, CallFailed)
    /\ inArgs' = NoAnswer
    /\ inCtx' = conversationContextAfter(ctx)
    /\ UNCHANGED <<ctx, analyzerVars, serverVars, handlerVars>>

Next ==
    \/ ConversationFlow
    \/ ConversationFlowRejects
    \/ ConversationFlowRejectsOutput
    \/ RequirementsGatheringFlow
    \/ RequirementsGatheringFlowRejects
    \/ ConversationStateFlow
    \/ ConversationStateFlowRejects

Spec == Init /\ [][Next]_vars

----------------------------------------------------------------------------
(* The analyzer alone: ambiguityDetectionFlow applied to every output of
   ambiguityAnalysisPrompt within the bounds *)

InitAnalyzer ==
    /\ ctx = None
    /\ inCtx = None
    /\ inArgs = NoAnswer
    /\ out = NoCall
    /\ calls = [c \in Calls |-> Idle]
    /\ clock = FirstReading
    /\ turn = NewTurn
    /\ detected \in SeqsUpTo(DetectedAmbiguity, MaxAmbiguities)
    /\ analysis = None
    /\ extraction = NoExtraction

AnalyzeAmbiguities ==
    /\ analysis = None
    /\ analysis' = Some(ambiguityDetectionFlow(detected))
    /\ UNCHANGED <<callerVars, serverVars, detected, extraction, handlerVars>>

NextAnalyzer == AnalyzeAmbiguities

SpecAnalyzer == InitAnalyzer /\ [][NextAnalyzer]_vars

\* the two entry points alone (conversationStateFlow is exported by no index
\* and called by no flow)
NextEntryPoints ==
    \/ ConversationFlow
    \/ ConversationFlowRejects
    \/ ConversationFlowRejectsOutput
    \/ RequirementsGatheringFlow
    \/ RequirementsGatheringFlowRejects

SpecEntryPoints == Init /\ [][NextEntryPoints]_vars

----------------------------------------------------------------------------
(* The server under concurrent callers.  The flows are stateless async
   handlers: an invocation is suspended at its awaited model calls while
   other invocations arrive and finish; nothing is keyed by conversationId.
   A caller passes no context, or any context a finished call returned. *)

EntryPoints == {"conversationFlow", "requirementsGatheringFlow"}

\* the contexts callers hold: every context some call returned
Held == {calls[d].result[1] : d \in {e \in Calls : calls[e].status = "returned"}}

\* the model outputs drawn in this specification
ServerAmbiguityOutputs == {<<>>}

ServerUnderstandingOutputs ==
    {u \in UnderstandingOutputs :
        Len(u.ambiguities) = 0 /\ u.confidence.overall \in {60, 85}}

\* the highest turnNumber returned so far for conversation id
LatestTurn(id) ==
    LET turns == {h.turnNumber : h \in {g \in Held : g.conversationId = id}}
    IN  IF turns = {} THEN 0
        ELSE CHOOSE t \in turns : \A u \in turns : u <= t

\* the async handler of a flow is invoked: nothing is checked or locked
CallArrives ==
    \E c \in Calls :
        /\ calls[c].status = "idle"
        /\ \A d \in 1..(c - 1) : calls[d].status # "idle"
        /\ \E flow \in EntryPoints, input \in {None} \cup {Some(h) : h \in Held} :
              \* requirementsGatheringFlow's inputSchema requires a context
              /\ IF flow = "requirementsGatheringFlow" THEN input # None ELSE TRUE
              /\ calls' = [calls EXCEPT ![c] =
                    [status |-> "inflight",
                     flow |-> flow,
                     input |-> input,
                     inFlightAtArrival |->
                        {d \in Calls : calls[d].status = "inflight"},
                     expectedTurn |->
                        IF input = None THEN 0
                        ELSE LatestTurn(input[1].conversationId),
                     result |-> None]]
        /\ UNCHANGED <<clock, callerVars, analyzerVars, handlerVars>>

\* a suspended conversationFlow resumes after its last await and returns
ConversationFlowReturns ==
    \E c \in Calls :
        /\ calls[c].status = "inflight"
        /\ calls[c].flow = "conversationFlow"
        /\ \E raw \in ServerAmbiguityOutputs, enhanced \in ServerUnderstandingOutputs :
              calls' = [calls EXCEPT
                    ![c].status = "returned",
                    ![c].result =
                        Some(conversationFlow(
                                intentAnalysisFlow(calls[c].input, raw, enhanced,
                                                   <<>>, clock)).conversationContext)]
        /\ UNCHANGED <<clock, callerVars, analyzerVars, handlerVars>>

\* a suspended requirementsGatheringFlow resumes and returns
RequirementsGatheringFlowReturns ==
    \E c \in Calls :
        /\ calls[c].status = "inflight"
        /\ calls[c].flow = "requirementsGatheringFlow"
        /\ \E answer \in ClarificationAnswers, question \in QuestionsAsked,
              updated \in ServerUnderstandingOutputs :
              calls' = [calls EXCEPT
                    ![c].status = "returned",
                    ![c].result =
                        Some(requirementsGatheringFlow(
                                clarificationProcessingFlow(
                                    answer, question, calls[c].input[1],
                                    updated)).conversationContext)]
        /\ UNCHANGED <<clock, callerVars, analyzerVars, handlerVars>>

\* an awaited model call of a suspended invocation rejects
CallRejects ==
    \E c \in Calls :
        /\ calls[c].status = "inflight"
        /\ calls' = [calls EXCEPT ![c].status = "rejected"]
        /\ UNCHANGED <<clock, callerVars, analyzerVars, handlerVars>>

\* a millisecond passes
Tick ==
    /\ clock + 1 \in ClockReadings
    /\ clock' = clock + 1
    /\ UNCHANGED <<calls, callerVars, analyzerVars, handlerVars>>

NextConcurrent ==
    \/ CallArrives
    \/ ConversationFlowReturns
    \/ RequirementsGatheringFlowReturns
    \/ CallRejects
    \/ Tick

SpecConcurrent == Init /\ [][NextConcurrent]_vars

----------------------------------------------------------------------------
(* One invocation of intentAnalysisFlow, statement by statement: the handler
   runs until it awaits a call, is suspended while the call is pending, and
   resumes with the call's output. *)

\* the sub-analyses of a turn, all of them calls the handler makes
SubAnalyses ==
    {"intentAnalysisPrompt", "contextExtractionFlow", "ambiguityDetectionFlow",
     "enhancedUnderstandingPrompt", "businessIntelligenceFlow"}

\* the statements of the handler, in program order
Statements ==
    <<"intentAnalysisPrompt", "contextExtractionFlow", "ambiguityDetectionFlow",
      "enhancedUnderstandingPrompt", "businessIntelligenceFlow",
      "needsClarification", "clarificationGenerationFlow", "updatedContext",
      "return">>

ExternalCalls == SubAnalyses \cup {"clarificationGenerationFlow"}

isAwaited_detachedInsights(call) == call # "businessIntelligenceFlow"

\* every call expression of the handler is `await f(...)`
isAwaited(call) == TRUE

\* the statement the handler is at
Statement == Statements[turn.pc]

Running == turn.status = "running" /\ turn.waiting = None

\* await f(...): the call is made; the handler is suspended until it settles
SubAnalysisCalled ==
    /\ Running
    /\ Statement \in ExternalCalls
    /\ IF Statement = "clarificationGenerationFlow" THEN turn.needs = Some(TRUE)
       ELSE TRUE
    /\ turn' = [turn EXCEPT
            !.pending = @ \cup {Statement},
            !.waiting = IF isAwaited(Statement) THEN Some(Statement) ELSE None,
            !.pc = IF isAwaited(Statement) THEN @ ELSE @ + 1]
    /\ UNCHANGED <<callerVars, serverVars, analyzerVars>>

\* if (needsClarification) is false: no call to clarificationGenerationFlow
GenerationSkipped ==
    /\ Running
    /\ Statement = "clarificationGenerationFlow"
    /\ turn.needs = Some(FALSE)
    /\ turn' = [turn EXCEPT !.pc = @ + 1]
    /\ UNCHANGED <<callerVars, serverVars, analyzerVars>>

\* a pending call resolves with its output; the handler resumes if it was
\* awaiting that call
SubAnalysisCompletes ==
    /\ turn.status = "running"
    /\ \E call \in turn.pending :
        \E raw \in IF call = "ambiguityDetectionFlow"
                   THEN {Some(r) : r \in TurnAmbiguityOutputs} ELSE {turn.raw},
           enhanced \in IF call = "enhancedUnderstandingPrompt"
                   THEN {Some(u) : u \in UnderstandingOutputs} ELSE {turn.enhanced},
           questions \in IF call = "clarificationGenerationFlow"
                   THEN QuestionOutputs ELSE {turn.questions} :
            turn' = [turn EXCEPT
                !.pending = @ \ {call},
                !.completed = @ \cup {call},
                !.raw = raw,
                !.enhanced = enhanced,
                !.questions = questions,
                !.waiting = IF @ = Some(call) THEN None ELSE @,
                !.pc = IF turn.waiting = Some(call) THEN @ + 1 ELSE @]
    /\ UNCHANGED <<callerVars, serverVars, analyzerVars>>

\* the awaited call rejects: the handler throws at the await
SubAnalysisRejects ==
    /\ turn.status = "running"
    /\ turn.waiting # None
    /\ turn' = [turn EXCEPT
            !.status = "rejected",
            !.pending = @ \ {turn.waiting[1]},
            !.waiting = None]
    /\ UNCHANGED <<callerVars, serverVars, analyzerVars>>

\* const needsClarification = ...
NeedsClarificationDecided ==
    /\ Running
    /\ Statement = "needsClarification"
    /\ turn' = [turn EXCEPT
            !.needs = Some(needsClarification(
                            calculateOverallAmbiguityScore(turn.raw[1]),
                            turn.enhanced[1])),
            !.pc = @ + 1]
    /\ UNCHANGED <<callerVars, serverVars, analyzerVars>>

\* const updatedContext = { ... }
UpdatedContextBuilt ==
    /\ Running
    /\ Statement = "updatedContext"
    /\ turn' = [turn EXCEPT
            !.updatedContext =
                Some(intentAnalysisFlow(None, turn.raw[1], turn.enhanced[1],
                                        turn.questions, clock).updatedContext),
            !.pc = @ + 1]
    /\ UNCHANGED <<callerVars, serverVars, analyzerVars>>

\* return { ..., updatedContext }
TurnReturns ==
    /\ Running
    /\ Statement = "return"
    /\ turn' = [turn EXCEPT !.status = "returned"]
    /\ UNCHANGED <<callerVars, serverVars, analyzerVars>>

NextTurn ==
    \/ SubAnalysisCalled
    \/ GenerationSkipped
    \/ SubAnalysisCompletes
    \/ SubAnalysisRejects
    \/ NeedsClarificationDecided
    \/ UpdatedContextBuilt
    \/ TurnReturns

SpecTurn == Init /\ [][NextTurn]_vars

----------------------------------------------------------------------------
(* contextExtractionFlow alone: the implications it attaches to every
   industry and event the context-analysis prompt may detect *)

\* IndustryContextSchema
IndustryContexts ==
    {"technology", "healthcare", "finance", "education", "non_profit", "retail",
     "manufacturing", "hospitality", "legal", "creative_agency", "construction",
     "automotive", "real_estate", "unknown"}

\* EventTypeSchema
EventTypes ==
    {"trade_show", "conference", "employee_onboarding", "client_appreciation",
     "product_launch", "company_anniversary", "holiday_gifts", "fundraising",
     "recruitment", "brand_awareness", "unknown"}

\* the pattern tables, each entry reduced to one of its fields
INDUSTRY_PATTERNS ==
    [industry \in {"technology", "healthcare", "finance", "education", "non_profit"} |->
        [budgetRange |->
            CASE industry = "technology" -> "medium to high"
              [] industry = "healthcare" -> "medium"
              [] industry = "finance" -> "medium to high"
              [] industry = "education" -> "low to medium"
              [] industry = "non_profit" -> "low"]]

EVENT_PATTERNS ==
    [event \in {"trade_show", "conference", "employee_onboarding"} |->
        [timeline |->
            CASE event = "trade_show" -> "specific deadline"
              [] event = "conference" -> "specific deadline"
              [] event = "employee_onboarding" -> "ongoing need"]]

\* the implications used when detected === 'unknown'
UnknownIndustryImplications == [budgetRange |-> "medium"]

UnknownEventImplications == [timeline |-> "flexible"]

\* table[key]: undefined when the object has no such property
PropertyOf(table, key) == IF key \in DOMAIN table THEN Some(table[key]) ELSE None

\* the value contextExtractionFlow returns when the prompt detects `industry`
\* and `event`; reading a field of undefined throws a TypeError
contextExtractionFlow(industry, event) ==
    LET industryImplications ==
            IF industry # "unknown" THEN PropertyOf(INDUSTRY_PATTERNS, industry)
            ELSE Some(UnknownIndustryImplications)
        eventImplications ==
            IF event # "unknown" THEN PropertyOf(EVENT_PATTERNS, event)
            ELSE Some(UnknownEventImplications)
    IN  IF industryImplications = None \/ eventImplications = None
        THEN [failed |-> TRUE, error |-> "TypeError"]
        ELSE [failed |-> FALSE,
              industryContext |->
                [detected |-> industry,
                 implications |->
                    [budgetRange |-> industryImplications[1].budgetRange]],
              eventContext |->
                [detected |-> event,
                 implications |-> [timeline |-> eventImplications[1].timeline]]]

InitContext ==
    /\ ctx = None
    /\ inCtx = None
    /\ inArgs = NoAnswer
    /\ out = NoCall
    /\ calls = [c \in Calls |-> Idle]
    /\ clock = FirstReading
    /\ turn = NewTurn
    /\ detected = <<>>
    /\ analysis = None
    /\ extraction \in
        [industry : IndustryContexts, event : EventTypes, result : {None}]

ExtractContext ==
    /\ extraction.result = None
    /\ extraction' = [extraction EXCEPT
            !.result = Some(contextExtractionFlow(extraction.industry,
                                                  extraction.event))]
    /\ UNCHANGED <<callerVars, serverVars, handlerVars, detected, analysis>>

NextContext == ExtractContext

SpecContext == InitContext /\ [][NextContext]_vars

----------------------------------------------------------------------------
(* Vocabulary of the properties *)

Returned(flow) == out.flow = flow /\ ~out.failed

ReturnedAny == out.flow # "none" /\ ~out.failed

\* the state a turn starts in: discovery when there is no context yet
StartState == IF inCtx = None THEN "discovery" ELSE inCtx[1].conversationState

EndState == ctx[1].conversationState

AboveThreshold(score) == score.num > 3 * score.den

Confident(understanding) ==
    understanding.confidence.overall > 80 /\ Len(understanding.ambiguities) = 0

----------------------------------------------------------------------------
(* C1: the readiness flag returned by conversationFlow (readyToRecommend)
   and by requirementsGatheringFlow (readyForRecommendations) is true if and
   only if the returned understanding has confidence.overall > 0.8 and no
   ambiguities. *)
C1_ReadinessIffConfidentAndUnambiguous ==
    /\ Returned("conversationFlow") =>
            (out.confidence.readyToRecommend <=> Confident(out.understanding))
    /\ Returned("requirementsGatheringFlow") =>
            (out.readyForRecommendations <=> Confident(out.updatedUnderstanding))

C1_Witness ==
    /\ Returned("requirementsGatheringFlow")
    /\ out.readyForRecommendations
    /\ out.updatedUnderstanding.confidence.overall = 85

(* C2: after every successfully processed turn, whichever flow handled it,
   the returned context's turnNumber is 1 on the first turn and the
   turnNumber of the context passed in plus 1 otherwise. *)
C2_TurnNumberAdvancesByOne ==
    ReturnedAny =>
        ctx[1].turnNumber = IF inCtx = None THEN 1 ELSE inCtx[1].turnNumber + 1

C2_Witness ==
    /\ Returned("conversationFlow")
    /\ inCtx # None
    /\ ctx[1].turnNumber = 3

AllowedEdge(from, to) ==
    \/ to = "clarification"
    \/ from \in {"discovery", "clarification"} /\ to = "confirmation"
    \/ from = "confirmation" /\ to = "specification"

(* C3: every change of conversationState between the context passed to a
   flow and the context it returns follows an edge of the transition set
   (any state -> clarification, discovery|clarification -> confirmation,
   confirmation -> specification). *)
C3_StateChangesFollowEdges ==
    (ReturnedAny /\ StartState # EndState) => AllowedEdge(StartState, EndState)

(* C4: a turn that starts in discovery or confirmation (or without a
   context) returns state clarification whenever the overall ambiguity score
   exceeds 0.3 or confidence.overall is below 0.7.  requirementsGatheringFlow
   computes no score: there the score can be positive only if the updated
   understanding still lists an ambiguity. *)
C4_ClarificationWhenAmbiguousOrUnsure ==
    /\ (/\ Returned("conversationFlow")
        /\ StartState \in {"discovery", "confirmation"}
        /\ \/ AboveThreshold(out.ambiguityAnalysis.overallAmbiguityScore)
           \/ out.understanding.confidence.overall < 70)
       => EndState = "clarification"
    /\ (/\ Returned("requirementsGatheringFlow")
        /\ StartState \in {"discovery", "confirmation"}
        /\ \/ Len(out.updatedUnderstanding.ambiguities) > 0
           \/ out.updatedUnderstanding.confidence.overall < 70)
       => EndState = "clarification"

C4_Witness ==
    /\ Returned("conversationFlow")
    /\ StartState = "confirmation"
    /\ inCtx # None
    /\ AboveThreshold(out.ambiguityAnalysis.overallAmbiguityScore)
    /\ out.understanding.confidence.overall = 85
    /\ EndState = "clarification"

(* C5 as stated: a turn that starts in discovery or clarification returns
   state confirmation whenever the score is at most 0.3, confidence.overall
   is at least 0.7 and the understanding is not ready, for both entry
   points.  (After requirementsGatheringFlow the score is that of the updated
   understanding's ambiguities: 0 when there are none.) *)
C5_ConfirmationWhenClearButNotReady ==
    /\ (/\ Returned("conversationFlow")
        /\ StartState \in {"discovery", "clarification"}
        /\ ~AboveThreshold(out.ambiguityAnalysis.overallAmbiguityScore)
        /\ out.understanding.confidence.overall >= 70
        /\ ~Confident(out.understanding))
       => EndState = "confirmation"
    /\ (/\ Returned("requirementsGatheringFlow")
        /\ StartState \in {"discovery", "clarification"}
        /\ Len(out.updatedUnderstanding.ambiguities) = 0
        /\ out.updatedUnderstanding.confidence.overall >= 70
        /\ ~Confident(out.updatedUnderstanding))
       => EndState = "confirmation"

(* C5 amended: after conversationFlow the state is confirmation whenever the
   score is at most 0.3 and confidence.overall at least 0.7 (boundaries
   included); after requirementsGatheringFlow the state is confirmation
   exactly when the updated understanding has no ambiguities and
   confidence.overall is at least 0.8, and clarification otherwise. *)
C5_ConfirmationPerEntryPoint ==
    /\ (/\ Returned("conversationFlow")
        /\ StartState \in {"discovery", "clarification"}
        /\ ~AboveThreshold(out.ambiguityAnalysis.overallAmbiguityScore)
        /\ out.understanding.confidence.overall >= 70
        /\ ~Confident(out.understanding))
       => EndState = "confirmation"
    /\ (/\ Returned("requirementsGatheringFlow")
        /\ StartState \in {"discovery", "clarification"})
       => /\ EndState \in {"confirmation", "clarification"}
          /\ EndState = "confirmation" <=>
                (/\ Len(out.updatedUnderstanding.ambiguities) = 0
                 /\ out.updatedUnderstanding.confidence.overall >= 80)

C5_Witness ==
    /\ Returned("conversationFlow")
    /\ StartState = "clarification"
    /\ out.ambiguityAnalysis.overallAmbiguityScore.num
            = 3 * out.ambiguityAnalysis.overallAmbiguityScore.den
    /\ out.understanding.confidence.overall = 70
    /\ EndState = "confirmation"

(* C6: a turn of an entry point that starts in confirmation and ends with
   confidence.overall > 0.8 and no ambiguities returns state specification. *)
C6_ConfirmationToSpecificationWhenReady ==
    /\ (Returned("conversationFlow") /\ StartState = "confirmation"
            /\ Confident(out.understanding))
       => EndState = "specification"
    /\ (Returned("requirementsGatheringFlow") /\ StartState = "confirmation"
            /\ Confident(out.updatedUnderstanding))
       => EndState = "specification"

(* C7: the context created on the first turn is in state discovery. *)
C7_FirstContextStartsInDiscovery ==
    (Returned("conversationFlow") /\ inCtx = None) => EndState = "discovery"

\* under SpecEntryPoints: the entry points only ever return clarification
\* or confirmation, so specification is reached by no sequence of turns
EntryPointsNeverReachSpecification ==
    ctx # None => EndState \in {"clarification", "confirmation"}

----------------------------------------------------------------------------
(* Properties of the analyzer, under SpecAnalyzer *)

(* C8: the overall ambiguity score lies in [0, 1], and it is 0 if and only
   if the list of ambiguities is empty. *)
C8_ScoreInUnitIntervalZeroIffEmpty ==
    analysis # None =>
        LET score == analysis[1].overallAmbiguityScore
        IN  /\ 0 <= score.num
            /\ score.num <= 10 * score.den
            /\ score.num = 0 <=> Len(detected) = 0

(* C9: every priority is impactWeight (high 3, medium 2, low 1) x
   urgencyWeight (critical 3, important 2, helpful 1) x confidence x 10, and
   lies in [0, 90]. *)
C9_PriorityFormulaAndRange ==
    analysis # None =>
        \A i \in 1..Len(analysis[1].clarificationPriority) :
            LET entry == analysis[1].clarificationPriority[i]
                impact == entry.reasoning[1]
                confidence == entry.reasoning[2]
                urgency == entry.reasoning[3]
                iw == IF impact = "high" THEN 3 ELSE IF impact = "medium" THEN 2 ELSE 1
                uw == IF urgency = "critical" THEN 3
                      ELSE IF urgency = "important" THEN 2 ELSE 1
            IN  /\ entry.priority = iw * uw * confidence
                /\ 0 <= entry.priority
                /\ entry.priority <= 90

(* C10: clarificationPriority is a permutation of the detected ambiguities
   (as priority entries) in non-increasing priority, and entries of equal
   priority keep the order in which they were emitted. *)
C10_RankingIsStableDescendingPermutation ==
    analysis # None =>
        LET ranked == analysis[1].clarificationPriority
            n == Len(detected)
        IN  /\ Len(ranked) = n
            /\ \E p \in Permutations(1..n) :
                    /\ \A i \in 1..n : ranked[i] = PriorityEntry(detected[p[i]])
                    /\ \A i, j \in 1..n :
                          i < j =>
                            /\ ranked[i].priority >= ranked[j].priority
                            /\ ranked[i].priority = ranked[j].priority => p[i] < p[j]

C10_Witness ==
    /\ analysis # None
    /\ Len(detected) = 2
    /\ analysis[1].clarificationPriority[1].priority
            = analysis[1].clarificationPriority[2].priority
    /\ analysis[1].clarificationPriority[1] # analysis[1].clarificationPriority[2]
    /\ analysis[1].clarificationPriority[1].priority > 0

----------------------------------------------------------------------------
(* Properties of the context a turn returns, under Spec *)

IsPrefix(s, t) == Len(s) <= Len(t) /\ SubSeq(t, 1, Len(s)) = s

\* the clarificationHistory of the context passed in ([] when there is none)
HistoryIn == IF inCtx = None THEN <<>> ELSE inCtx[1].clarificationHistory

(* C11: clarificationHistory is append-only: after every turn the history of
   the context passed in is a prefix of the returned context's history, and
   after requirementsGatheringFlow the returned history is the previous one
   followed by exactly one entry holding the question asked and the answer
   given. *)
C11_HistoryIsAppendOnly ==
    /\ ReturnedAny => IsPrefix(HistoryIn, ctx[1].clarificationHistory)
    /\ Returned("requirementsGatheringFlow") =>
            LET history == ctx[1].clarificationHistory
            IN  /\ Len(history) = Len(HistoryIn) + 1
                /\ SubSeq(history, 1, Len(HistoryIn)) = HistoryIn
                /\ history[Len(history)].question = inArgs.questionAsked
                /\ history[Len(history)].answer = inArgs.clarificationAnswer

C11_Witness ==
    /\ Returned("requirementsGatheringFlow")
    /\ Len(HistoryIn) = 1
    /\ HistoryIn[1].question = "q_budget"
    /\ Len(ctx[1].clarificationHistory) = 2
    /\ ctx[1].clarificationHistory[2].question = "q_quantity"

(* C13: after a turn of an entry point the returned context's
   previousContext is the currentUnderstanding of the context passed in
   (undefined on the first turn) and its currentUnderstanding is the
   understanding the model call of this turn produced, as returned,
   whatever the previous understanding held. *)
C13_UnderstandingIsReplacedNotMerged ==
    /\ (Returned("conversationFlow") \/ Returned("requirementsGatheringFlow")) =>
            ctx[1].previousContext =
                IF inCtx = None THEN None ELSE Some(inCtx[1].currentUnderstanding)
    /\ Returned("conversationFlow") =>
            ctx[1].currentUnderstanding = out.understanding
    /\ Returned("requirementsGatheringFlow") =>
            ctx[1].currentUnderstanding = out.updatedUnderstanding

C13_Witness ==
    /\ Returned("requirementsGatheringFlow")
    /\ Len(inCtx[1].currentUnderstanding.ambiguities) > 0
    /\ inCtx[1].previousContext # None
    /\ inCtx[1].previousContext # Some(inCtx[1].currentUnderstanding)
    /\ Len(ctx[1].currentUnderstanding.ambiguities) = 0
    /\ ctx[1].previousContext = Some(inCtx[1].currentUnderstanding)

(* C14: no flow mutates the context it is given: when conversationFlow,
   requirementsGatheringFlow or conversationStateFlow returns, the argument
   object still holds the value the caller passed, and the update is in the
   returned context only. *)
C14_InputContextIsNotMutated ==
    [][~out'.failed => (inCtx' = ctx /\ ctx' # inCtx')]_vars

C14_Witness ==
    /\ Returned("conversationStateFlow")
    /\ inCtx # None
    /\ ctx[1].turnNumber = inCtx[1].turnNumber + 1
    /\ ctx[1].conversationState # inCtx[1].conversationState

(* C16: a failing extraction call (service error, time-out) is retried a
   bounded number of times and the turn then still returns a result with
   needsClarification = true: conversationFlow never fails because an
   extraction call failed. *)
C16_ExtractionFailureNeverFailsTheTurn ==
    ~(out.flow = "conversationFlow" /\ out.failed /\ out.error = CallFailed)

(* C17: a turn whose awaited call is cancelled or times out, at whichever
   suspension point, leaves the context passed in as it was, returns no
   context at all (only the error of the awaited call), and the caller still
   holds the context it passed, from which the turn can be issued again. *)
C17_FailedTurnLeavesContextUntouched ==
    [][out'.failed =>
            /\ inCtx' = ctx
            /\ ctx' = ctx
            /\ DOMAIN out' = {"flow", "failed", "awaited", "error", "attempts"}]_vars

C17_Witness ==
    /\ out.failed
    /\ out.flow = "conversationFlow"
    /\ out.awaited = "responsePrompt"
    /\ ctx # None
    /\ inCtx = ctx
    /\ ctx[1].turnNumber = 2

(* C18: an ambiguity whose impact or resolutionUrgency is outside the enums
   is never scored, and the turn is rejected for it only after the model was
   asked a second time (the first call and one retry). *)
C18_UnknownEnumRetriedOnceThenRejected ==
    /\ Returned("conversationFlow") =>
            \A i \in 1..Len(out.ambiguityAnalysis.clarificationPriority) :
                LET reasoning == out.ambiguityAnalysis.clarificationPriority[i].reasoning
                IN  reasoning[1] \in Impacts /\ reasoning[3] \in Urgencies
    /\ (out.failed /\ out.error = SchemaValidation) => out.attempts = 2

\* the first half alone holds
UnknownEnumIsNeverScored ==
    Returned("conversationFlow") =>
        \A i \in 1..Len(out.ambiguityAnalysis.clarificationPriority) :
            LET reasoning == out.ambiguityAnalysis.clarificationPriority[i].reasoning
            IN  reasoning[1] \in Impacts /\ reasoning[3] \in Urgencies

Min(a, b) == IF a <= b THEN a ELSE b

PriorityRank(priority) ==
    CASE priority = "high" -> 3
      [] priority = "medium" -> 2
      [] priority = "low" -> 1

(* C20: with n ranked ambiguities and a budget of maxQuestions = 3,
   conversationFlow returns exactly min(n, 3) clarification questions, in
   non-increasing priority, each with a non-empty reasoning, and the list it
   passed to clarificationGenerationFlow is the ranked list. *)
C20_SelectorReturnsTopQuestionsOfRankedList ==
    (Returned("conversationFlow") /\ out.needsClarification) =>
        LET ranked == out.ambiguityAnalysis.clarificationPriority
            passed == out.questionsAbout[1]
            questions == out.clarificationQuestions
        IN  /\ Len(questions) = Min(Len(ranked), MaxQuestions)
            /\ \A i \in 1..Len(questions) : questions[i].reasoning # ""
            /\ \A i, j \in 1..Len(questions) :
                    i < j => PriorityRank(questions[i].priority)
                                >= PriorityRank(questions[j].priority)
            /\ Len(passed) = Len(ranked)
            /\ \A i \in 1..Len(passed) : passed[i].type = ranked[i].ambiguityType

\* the last part alone, which fails by itself: intentAnalysisFlow passes
\* detectedAmbiguities, in the order the model emitted them
SelectorIsGivenTheRankedList ==
    (Returned("conversationFlow") /\ out.needsClarification) =>
        LET ranked == out.ambiguityAnalysis.clarificationPriority
            passed == out.questionsAbout[1]
        IN  /\ Len(passed) = Len(ranked)
            /\ \A i \in 1..Len(passed) : passed[i].type = ranked[i].ambiguityType

(* C21: whenever the detector found no ambiguity in the turn,
   conversationFlow returns needsClarification = false and no clarification
   questions, whatever confidence.overall is. *)
C21_NoAmbiguityNoClarification ==
    (Returned("conversationFlow")
        /\ Len(out.ambiguityAnalysis.detectedAmbiguities) = 0)
    => (~out.needsClarification /\ Len(out.clarificationQuestions) = 0)

(* C22: stuckIndicator is true exactly when an ambiguity type was the
   subject of clarification in two or more consecutive clarification turns,
   or turnNumber exceeds 6 without confirmation ever reached.  Stated for
   the conversations in which neither can be the case, those with a single
   turn behind them: there stuckIndicator is false. *)
C22_NotStuckAfterASingleTurn ==
    (Returned("conversationStateFlow") /\ inCtx[1].turnNumber = 1)
    => ~out.conversationHealth.stuckIndicator

(* C23: in every conversationHealth returned by conversationStateFlow,
   recommendedIntervention is present only if stuckIndicator is true, and is
   present and non-empty whenever stuckIndicator is true. *)
C23_InterventionIffStuck ==
    Returned("conversationStateFlow") =>
        LET health == out.conversationHealth
        IN  /\ health.recommendedIntervention # NoValue => health.stuckIndicator
            /\ health.stuckIndicator =>
                    health.recommendedIntervention \notin {NoValue, ""}

(* C25: clarificationGenerationFlow is invoked if and only if the turn's
   needsClarification is true, and a turn of conversationFlow that returns a
   state other than clarification returns no clarification questions. *)
C25_QuestionsOnlyInClarificationTurns ==
    Returned("conversationFlow") =>
        /\ out.questionsAbout # None <=> out.needsClarification
        /\ EndState # "clarification" => Len(out.clarificationQuestions) = 0

C25_Witness ==
    /\ Returned("conversationFlow")
    /\ out.needsClarification
    /\ out.questionsAbout # None
    /\ Len(out.clarificationQuestions) > 0
    /\ EndState = "clarification"

(* C27: no turn of conversationFlow returns needsClarification = true
   together with confidence.readyToRecommend = true. *)
C27_ReadyToRecommendExcludesClarification ==
    Returned("conversationFlow") =>
        ~(out.needsClarification /\ out.confidence.readyToRecommend)

(* C28: the state label of a returned context agrees with the clarification
   flag of the same result: after conversationFlow it is clarification exactly
   when needsClarification is true and confirmation otherwise; after
   requirementsGatheringFlow the same with needsMoreClarification; the state
   of the input context plays no part. *)
C28_StateLabelAgreesWithFlag ==
    /\ Returned("conversationFlow") =>
            out.conversationContext.conversationState =
                IF out.needsClarification THEN "clarification" ELSE "confirmation"
    /\ Returned("requirementsGatheringFlow") =>
            out.conversationContext.conversationState =
                IF out.needsMoreClarification THEN "clarification"
                ELSE "confirmation"

\* an answer processed on a context in another state than the one returned
C28_Witness ==
    /\ Returned("requirementsGatheringFlow")
    /\ StartState \notin {"clarification", "confirmation"}
    /\ ~out.needsMoreClarification
    /\ EndState = "confirmation"

\* the fields of a context that conversationStateFlow copies
CopiedByStateFlow(conversationContext) ==
    <<conversationContext.conversationId,
      conversationContext.previousContext,
      conversationContext.currentUnderstanding,
      conversationContext.clarificationHistory,
      conversationContext.userPreferences>>

(* C29: conversationStateFlow changes only conversationState and turnNumber:
   conversationId, previousContext, currentUnderstanding, clarificationHistory
   and userPreferences of the returned context are those of the input context,
   for every action and every analysis outcome. *)
C29_StateFlowChangesOnlyStateAndTurn ==
    Returned("conversationStateFlow") =>
        CopiedByStateFlow(out.updatedContext) = CopiedByStateFlow(inCtx[1])

\* a context with history and a previous understanding whose state and turn
\* number the flow changed
C29_Witness ==
    /\ Returned("conversationStateFlow")
    /\ Len(inCtx[1].clarificationHistory) > 0
    /\ inCtx[1].previousContext # inCtx[1].currentUnderstanding
    /\ out.updatedContext.conversationState # inCtx[1].conversationState
    /\ out.updatedContext.turnNumber = inCtx[1].turnNumber + 1

(* C30: requirementsGatheringFlow returns an empty nextQuestions list in every
   outcome, needsMoreClarification = true included, and the history entry it
   appends carries no resolved ambiguity, whichever ambiguities the answer
   removed. *)
C30_NoNextQuestionsNoResolvedAmbiguity ==
    Returned("requirementsGatheringFlow") =>
        LET history == out.conversationContext.clarificationHistory
        IN  /\ Len(out.nextQuestions) = 0
            /\ Len(history) = Len(inCtx[1].clarificationHistory) + 1
            /\ history[Len(history)].resolvedAmbiguity = NoValue

\* the answer removed every ambiguity of the understanding, and more
\* clarification is still needed
C30_Witness ==
    /\ Returned("requirementsGatheringFlow")
    /\ Len(inCtx[1].currentUnderstanding.ambiguities) > 0
    /\ Len(out.updatedUnderstanding.ambiguities) = 0
    /\ out.needsMoreClarification

----------------------------------------------------------------------------
(* Properties of concurrent invocations, under SpecConcurrent *)

ReturnedCalls == {c \in Calls : calls[c].status = "returned"}

(* C12: conversationId never changes once assigned (a returned context
   carries the id of the context passed in), and the id generated for a
   call without a context differs from the id of every other conversation,
   one started at the same time included. *)
C12_ConversationIdFixedAndFresh ==
    /\ \A c \in ReturnedCalls :
            calls[c].input # None =>
                calls[c].result[1].conversationId = calls[c].input[1].conversationId
    /\ \A c, d \in ReturnedCalls :
            (c # d /\ calls[c].input = None /\ calls[d].input = None) =>
                calls[c].result[1].conversationId # calls[d].result[1].conversationId

\* the first half alone holds under SpecConcurrent
ConversationIdNeverChanges ==
    \A c \in ReturnedCalls :
        calls[c].input # None =>
            calls[c].result[1].conversationId = calls[c].input[1].conversationId

(* C15: turns of one conversation are sequential: a turn that arrives while
   another turn for the same context is in flight is rejected or queued, so
   the two never both return a successor of that one context with the same
   turnNumber. *)
C15_TurnsOfOneConversationAreSequential ==
    \A c, d \in ReturnedCalls :
        (/\ c # d
         /\ d \in calls[c].inFlightAtArrival
         /\ calls[c].input # None
         /\ calls[c].input = calls[d].input)
        => calls[c].result[1].turnNumber # calls[d].result[1].turnNumber

(* C19: a turn whose caller-supplied context carries a turnNumber other
   than the latest one returned for that conversation (a repeated or
   decreased value) is rejected: no updated context is produced from it. *)
C19_OutOfSequenceTurnIsRejected ==
    \A c \in Calls :
        (/\ calls[c].input # None
         /\ calls[c].input[1].turnNumber # calls[c].expectedTurn)
        => calls[c].status # "returned"

----------------------------------------------------------------------------
(* Properties of one invocation of intentAnalysisFlow, under SpecTurn *)

(* C24: once needsClarification is decided or the updated context is built,
   every sub-analysis of the turn (intent extraction, context extraction,
   ambiguity detection, understanding enhancement, business insights) has
   completed and none is pending. *)
C24_SubAnalysesJoinBeforeDecision ==
    (turn.needs # None \/ turn.updatedContext # None) =>
        /\ SubAnalyses \subseteq turn.completed
        /\ turn.pending \cap SubAnalyses = {}

C24_Witness ==
    /\ turn.status = "returned"
    /\ turn.needs = Some(TRUE)
    /\ turn.updatedContext # None
    /\ turn.updatedContext[1].conversationState = "clarification"
    /\ "clarificationGenerationFlow" \in turn.completed

----------------------------------------------------------------------------
(* Properties of contextExtractionFlow, under SpecContext *)

(* C26: for every industry and every event of the enums the flow returns an
   implications record and never fails; a value with no entry in the pattern
   table gets the implications of 'unknown'. *)
C26_PatternLookupIsTotal ==
    extraction.result # None =>
        LET result == extraction.result[1]
        IN  /\ ~result.failed
            /\ extraction.industry \notin DOMAIN INDUSTRY_PATTERNS =>
                    result.industryContext.implications = UnknownIndustryImplications
            /\ extraction.event \notin DOMAIN EVENT_PATTERNS =>
                    result.eventContext.implications = UnknownEventImplications

=============================================================================
